---- MODULE Spec2Model ----
(***************************************************************************)
(* Model of the Reddit User MCP gateway (src/src/index.ts): nine tools     *)
(* registered on an MCP server, each validating its input against a zod    *)
(* schema, issuing one axios request through RedditAPIClient and wrapping  *)
(* the outcome into a ToolResult.                                          *)
(***************************************************************************)
EXTENDS Integers, Sequences, FiniteSets, TLC

(***************************************************************************)
(* Bounds of the model.                                                    *)
(***************************************************************************)
\* number of tool invocations the hosting framework serves at the same time
MaxInFlight == 1
\* number of invocations in flight together in the concurrent specification
MaxConcurrent == 2
\* longest listing the backend answers with
MaxListLen == 2

(***************************************************************************)
(* JavaScript values.  A number is a fraction num/den, so that 2.5 is a    *)
(* value; JSON data is tagged with its type; an object keeps its entries   *)
(* in insertion order.                                                     *)
(***************************************************************************)
Num(n, d) == [num |-> n, den |-> d]
Whole(n) == Num(n, 1)

Undefined == [type |-> "undefined"]
JNull == [type |-> "null"]
JStr(s) == [type |-> "string", value |-> s]
JArr(items) == [type |-> "array", items |-> items]
JObj(entries) == [type |-> "object", entries |-> entries]

\* ToBoolean of a value: undefined, null and "" are falsy, arrays and objects truthy
Truthy(v) ==
  CASE v.type = "undefined" -> FALSE
    [] v.type = "null" -> FALSE
    [] v.type = "string" -> v.value # ""
    [] OTHER -> TRUE

\* a || b
OrElse(a, b) == IF Truthy(a) THEN a ELSE b

\* obj.key throws a TypeError when obj is null or undefined
CanRead(obj) == obj.type \notin {"undefined", "null"}

\* obj.key: the value of the entry for key, undefined when there is none
Get(obj, key) ==
  IF obj.type = "object" /\ \E k \in 1..Len(obj.entries) : obj.entries[k][1] = key
  THEN LET k == CHOOSE k \in 1..Len(obj.entries) : obj.entries[k][1] = key
       IN obj.entries[k][2]
  ELSE Undefined

\* Pick as it would be if an undefined member were sent as an empty value
Pick_keepUndefined(obj, keys) == [k \in keys |-> IF k \in DOMAIN obj THEN obj[k] ELSE ""]

\* a JavaScript object literal {k1, k2, ...} whose undefined members are dropped
\* when it is serialized into a query string or a JSON body
Pick(obj, keys) == [k \in (keys \cap DOMAIN obj) |-> obj[k]]

\* a parameter with a default value: (limit = 25)
WithDefault(obj, key, value) ==
  IF key \in DOMAIN obj THEN obj ELSE [k \in DOMAIN obj \cup {key} |-> IF k = key THEN value ELSE obj[k]]

(***************************************************************************)
(* JSON.stringify(value, null, 2)                                          *)
(***************************************************************************)
RECURSIVE Spaces(_)
Spaces(n) == IF n = 0 THEN "" ELSE " " \o Spaces(n - 1)

RECURSIVE Stringify(_, _)
RECURSIVE StringifyItems(_, _, _)
RECURSIVE StringifyEntries(_, _, _)

StringifyItems(items, k, indent) ==
  IF k > Len(items) THEN ""
  ELSE Spaces(indent) \o Stringify(items[k], indent)
       \o (IF k < Len(items) THEN ",\n" ELSE "\n")
       \o StringifyItems(items, k + 1, indent)

StringifyEntries(entries, k, indent) ==
  IF k > Len(entries) THEN ""
  ELSE Spaces(indent) \o "\"" \o entries[k][1] \o "\": " \o Stringify(entries[k][2], indent)
       \o (IF k < Len(entries) THEN ",\n" ELSE "\n")
       \o StringifyEntries(entries, k + 1, indent)

Stringify(v, indent) ==
  CASE v.type = "null" -> "null"
    [] v.type = "string" -> "\"" \o v.value \o "\""
    [] v.type = "array" ->
         IF Len(v.items) = 0 THEN "[]"
         ELSE "[\n" \o StringifyItems(v.items, 1, indent + 2) \o Spaces(indent) \o "]"
    [] v.type = "object" ->
         IF Len(v.entries) = 0 THEN "{}"
         ELSE "{\n" \o StringifyEntries(v.entries, 1, indent + 2) \o Spaces(indent) \o "}"

JSONstringify(v) == Stringify(v, 0)

(***************************************************************************)
(* zod: the field schemas the tools declare, and the validation the MCP    *)
(* server runs on the arguments before it calls a handler.  An input is a  *)
(* function from the supplied keys to their values; string fields carry    *)
(* strings and number fields carry numbers.                                *)
(***************************************************************************)
\* z.string()
zString == [type |-> "string", optional |-> FALSE, hasDefault |-> FALSE]
\* z.string().optional()
zStringOptional == [type |-> "string", optional |-> TRUE, hasDefault |-> FALSE]
\* zLimit as it would be with another default: z.number().min(1).max(100).default(10)
zLimit_default10 == [type |-> "number", optional |-> FALSE, hasDefault |-> TRUE,
                     min |-> 1, max |-> 100, default |-> Whole(10)]

\* z.number().min(1).max(100).default(25)
zLimit == [type |-> "number", optional |-> FALSE, hasDefault |-> TRUE,
           min |-> 1, max |-> 100, default |-> Whole(25)]

\* .min(m).max(M) on a number
ZodNumberOk(field, v) == v.num >= field.min * v.den /\ v.num <= field.max * v.den

ZodFieldOk(field, input, key) ==
  IF key \notin DOMAIN input THEN field.optional \/ field.hasDefault
  ELSE field.type = "number" => ZodNumberOk(field, input[key])

\* safeParse(...).success
ZodValid(schema, input) == \A key \in DOMAIN schema : ZodFieldOk(schema[key], input, key)

\* safeParse(...).data: the supplied values, with the defaults filled in
ZodParse(schema, input) ==
  [key \in DOMAIN input \cup {k \in DOMAIN schema : schema[k].hasDefault} |->
     IF key \in DOMAIN input THEN input[key] ELSE schema[key].default]

get_user_posts_inputSchema == [username |-> zStringOptional, limit |-> zLimit]
get_user_comments_inputSchema == [username |-> zStringOptional, limit |-> zLimit]
get_post_comments_inputSchema == [postId |-> zString, subreddit |-> zStringOptional]
hide_comment_inputSchema == [commentId |-> zString]
reply_to_comment_inputSchema == [commentId |-> zString, text |-> zString]
post_comment_inputSchema == [postId |-> zString, text |-> zString]
get_hot_posts_inputSchema == [subreddit |-> zString, limit |-> zLimit]
get_new_posts_inputSchema == [subreddit |-> zString, limit |-> zLimit]
get_rising_posts_inputSchema == [subreddit |-> zString, limit |-> zLimit]

(***************************************************************************)
(* axios: an instance created with defaults, the request a get or a post   *)
(* puts on the wire, and how the answer settles the promise.               *)
(***************************************************************************)
NoFields == [k \in {} |-> ""]

\* axios.create({baseURL, headers})
axiosCreate(baseURL, headers) == [baseURL |-> baseURL, headers |-> headers]

\* instance.get(url, {params}): undefined params are left out of the query
axiosGet(instance, url, params) ==
  [method |-> "GET", baseURL |-> instance.baseURL, url |-> url,
   headers |-> instance.headers, params |-> params, data |-> NoFields]

\* instance.post(url, data): undefined members are left out of the JSON body
axiosPost(instance, url, data) ==
  [method |-> "POST", baseURL |-> instance.baseURL, url |-> url,
   headers |-> instance.headers, params |-> NoFields, data |-> data]

Fulfilled(value) == [status |-> "fulfilled", value |-> value]
Rejected(reason) == [status |-> "rejected", reason |-> reason]

Error(name, message) == [name |-> name, message |-> message]
\* `${error}`
ErrorToString(error) == error.name \o ": " \o error.message

\* the promise of a request: a 2xx response fulfils it, any other status and any
\* transport failure reject it
AxiosSettle(answer) ==
  IF answer.kind = "response"
  THEN IF answer.status >= 200 /\ answer.status < 300
       THEN Fulfilled([status |-> answer.status, data |-> answer.data])
       ELSE Rejected(Error("AxiosError",
                           "Request failed with status code " \o ToString(answer.status)))
  ELSE Rejected(Error("Error", answer.message))

\* reading a property of null inside a client method
TypeError(key) == Error("TypeError", "Cannot read properties of null (reading '" \o key \o "')")

(***************************************************************************)
(* RedditAPIClient                                                         *)
(***************************************************************************)
\* the constructor as it would be if the header carried the bare token
RedditAPIClient_rawToken(accessToken, apiBaseUrl) ==
  [accessToken |-> accessToken,
   apiBaseUrl |-> apiBaseUrl,
   axiosInstance |-> axiosCreate(apiBaseUrl,
                        [k \in {"Authorization", "Content-Type"} |->
                           IF k = "Authorization" THEN accessToken
                           ELSE "application/json"])]

RedditAPIClient(accessToken, apiBaseUrl) ==
  [accessToken |-> accessToken,
   apiBaseUrl |-> apiBaseUrl,
   axiosInstance |-> axiosCreate(apiBaseUrl,
                        [k \in {"Authorization", "Content-Type"} |->
                           IF k = "Authorization" THEN "Bearer " \o accessToken
                           ELSE "application/json"])]

\* Each method is modelled by the request it issues (named as the method) and by
\* what it returns or throws once the request has settled (named ..._settled).
getUserPosts(client, a) ==
  axiosGet(client.axiosInstance, "/api/reddit/mcp/user-posts",
           Pick(WithDefault(a, "limit", Whole(25)), {"username", "limit"}))
\* getUserPosts as it would be if it read a posts member, as the subreddit methods do
getUserPosts_settled_posts(a, settled) ==
  IF settled.status = "rejected" THEN settled
  ELSE Fulfilled(OrElse(Get(settled.value.data, "posts"), JArr(<<>>)))
getUserPosts_settled(a, settled) ==
  IF settled.status = "rejected" THEN settled ELSE Fulfilled(settled.value.data)

getUserComments(client, a) ==
  axiosGet(client.axiosInstance, "/api/reddit/mcp/user-comments",
           Pick(WithDefault(a, "limit", Whole(25)), {"username", "limit"}))
getUserComments_settled(a, settled) ==
  IF settled.status = "rejected" THEN settled ELSE Fulfilled(settled.value.data)

getPostComments(client, a) ==
  axiosGet(client.axiosInstance, "/api/reddit/mcp/post-comments",
           Pick(a, {"postId", "subreddit"}))
getPostComments_settled(a, settled) ==
  IF settled.status = "rejected" THEN settled ELSE Fulfilled(settled.value.data)

hideComment(client, a) ==
  axiosPost(client.axiosInstance, "/api/reddit/mcp/hide-comment", Pick(a, {"commentId"}))
\* hideComment as it would be if its catch rethrew
hideComment_settled_rethrow(a, settled) ==
  IF settled.status = "rejected" THEN settled ELSE Fulfilled(TRUE)
hideComment_settled(a, settled) ==
  IF settled.status = "rejected" THEN Fulfilled(FALSE) ELSE Fulfilled(TRUE)

replyToComment(client, a) ==
  axiosPost(client.axiosInstance, "/api/reddit/mcp/reply-comment",
            Pick(a, {"commentId", "text"}))
\* replyToComment as it would be if its catch rethrew
replyToComment_settled_rethrow(a, settled) ==
  IF settled.status = "rejected" THEN settled
  ELSE IF ~CanRead(settled.value.data) THEN Rejected(TypeError("replyId"))
  ELSE Fulfilled(OrElse(Get(settled.value.data, "replyId"), JNull))
replyToComment_settled(a, settled) ==
  IF settled.status = "rejected" THEN Fulfilled(JNull)
  ELSE IF ~CanRead(settled.value.data) THEN Fulfilled(JNull)
  ELSE Fulfilled(OrElse(Get(settled.value.data, "replyId"), JNull))

postComment(client, a) ==
  axiosPost(client.axiosInstance, "/api/reddit/mcp/post-comment",
            Pick(a, {"postId", "text"}))
\* postComment as it would be if its catch rethrew
postComment_settled_rethrow(a, settled) ==
  IF settled.status = "rejected" THEN settled
  ELSE IF ~CanRead(settled.value.data) THEN Rejected(TypeError("commentId"))
  ELSE Fulfilled(OrElse(Get(settled.value.data, "commentId"), JNull))
postComment_settled(a, settled) ==
  IF settled.status = "rejected" THEN Fulfilled(JNull)
  ELSE IF ~CanRead(settled.value.data) THEN Fulfilled(JNull)
  ELSE Fulfilled(OrElse(Get(settled.value.data, "commentId"), JNull))

getHotPosts(client, a) ==
  axiosPost(client.axiosInstance, "/api/reddit/mcp/hot-posts",
            Pick(WithDefault(a, "limit", Whole(25)), {"subreddit", "limit"}))
\* getHotPosts as it would be if its catch returned an empty listing
getHotPosts_settled_swallow(a, settled) ==
  IF settled.status = "rejected" THEN Fulfilled(JArr(<<>>))
  ELSE IF ~CanRead(settled.value.data) THEN Fulfilled(JArr(<<>>))
  ELSE Fulfilled(OrElse(Get(settled.value.data, "posts"), JArr(<<>>)))
getHotPosts_settled(a, settled) ==
  IF settled.status = "rejected" THEN settled
  ELSE IF ~CanRead(settled.value.data) THEN Rejected(TypeError("posts"))
  ELSE Fulfilled(OrElse(Get(settled.value.data, "posts"), JArr(<<>>)))

getNewPosts(client, a) ==
  axiosPost(client.axiosInstance, "/api/reddit/mcp/new-posts",
            Pick(WithDefault(a, "limit", Whole(25)), {"subreddit", "limit"}))
\* getNewPosts as it would be if it returned the response body instead of its posts
getNewPosts_settled_body(a, settled) ==
  IF settled.status = "rejected" THEN settled
  ELSE Fulfilled(OrElse(settled.value.data, JArr(<<>>)))
getNewPosts_settled(a, settled) ==
  IF settled.status = "rejected" THEN settled
  ELSE IF ~CanRead(settled.value.data) THEN Rejected(TypeError("posts"))
  ELSE Fulfilled(OrElse(Get(settled.value.data, "posts"), JArr(<<>>)))

getRisingPosts(client, a) ==
  axiosPost(client.axiosInstance, "/api/reddit/mcp/rising-posts",
            Pick(WithDefault(a, "limit", Whole(25)), {"subreddit", "limit"}))
getRisingPosts_settled(a, settled) ==
  IF settled.status = "rejected" THEN settled
  ELSE IF ~CanRead(settled.value.data) THEN Rejected(TypeError("posts"))
  ELSE Fulfilled(OrElse(Get(settled.value.data, "posts"), JArr(<<>>)))

(***************************************************************************)
(* The tool handlers registered by createServer.  A handler is modelled by *)
(* the arguments it passes to the client (named ..._args: the parsed       *)
(* input with the handler's own parameter defaults) and by the ToolResult  *)
(* it returns once the client method has returned or thrown (named         *)
(* ..._handler).                                                           *)
(***************************************************************************)
TextResult(text) == [content |-> <<[type |-> "text", text |-> text]>>]
ErrorResult(text) == [content |-> <<[type |-> "text", text |-> text]>>, isError |-> TRUE]
FlaggedResult(text, isError) ==
  [content |-> <<[type |-> "text", text |-> text]>>, isError |-> isError]

get_user_posts_args(parsed) == WithDefault(parsed, "limit", Whole(25))
get_user_posts_handler(args, outcome) ==
  IF outcome.status = "fulfilled" THEN TextResult(JSONstringify(outcome.value))
  ELSE ErrorResult("Error fetching user posts: " \o ErrorToString(outcome.reason))

get_user_comments_args(parsed) == WithDefault(parsed, "limit", Whole(25))
get_user_comments_handler(args, outcome) ==
  IF outcome.status = "fulfilled" THEN TextResult(JSONstringify(outcome.value))
  ELSE ErrorResult("Error fetching user comments: " \o ErrorToString(outcome.reason))

get_post_comments_args(parsed) == parsed
get_post_comments_handler(args, outcome) ==
  IF outcome.status = "fulfilled" THEN TextResult(JSONstringify(outcome.value))
  ELSE ErrorResult("Error fetching post comments: " \o ErrorToString(outcome.reason))

hide_comment_args(parsed) == parsed
hide_comment_handler(args, outcome) ==
  IF outcome.status = "fulfilled"
  THEN FlaggedResult(IF outcome.value THEN "Successfully hid comment " \o args.commentId
                     ELSE "Failed to hide comment " \o args.commentId,
                     ~outcome.value)
  ELSE ErrorResult("Error hiding comment: " \o ErrorToString(outcome.reason))

reply_to_comment_args(parsed) == parsed
reply_to_comment_handler(args, outcome) ==
  IF outcome.status = "fulfilled"
  THEN FlaggedResult(IF Truthy(outcome.value)
                     THEN "Successfully replied to comment " \o args.commentId
                          \o ". Reply ID: " \o outcome.value.value
                     ELSE "Failed to reply to comment " \o args.commentId,
                     ~Truthy(outcome.value))
  ELSE ErrorResult("Error replying to comment: " \o ErrorToString(outcome.reason))

post_comment_args(parsed) == parsed
post_comment_handler(args, outcome) ==
  IF outcome.status = "fulfilled"
  THEN FlaggedResult(IF Truthy(outcome.value)
                     THEN "Successfully posted comment on post " \o args.postId
                          \o ". Comment ID: " \o outcome.value.value
                     ELSE "Failed to post comment on post " \o args.postId,
                     ~Truthy(outcome.value))
  ELSE ErrorResult("Error posting comment: " \o ErrorToString(outcome.reason))

get_hot_posts_args(parsed) == WithDefault(parsed, "limit", Whole(25))
get_hot_posts_handler(args, outcome) ==
  IF outcome.status = "fulfilled" THEN TextResult(JSONstringify(outcome.value))
  ELSE ErrorResult("Error fetching hot posts: " \o ErrorToString(outcome.reason))

get_new_posts_args(parsed) == WithDefault(parsed, "limit", Whole(25))
get_new_posts_handler(args, outcome) ==
  IF outcome.status = "fulfilled" THEN TextResult(JSONstringify(outcome.value))
  ELSE ErrorResult("Error fetching new posts: " \o ErrorToString(outcome.reason))

get_rising_posts_args(parsed) == WithDefault(parsed, "limit", Whole(25))
get_rising_posts_handler(args, outcome) ==
  IF outcome.status = "fulfilled" THEN TextResult(JSONstringify(outcome.value))
  ELSE ErrorResult("Error fetching rising posts: " \o ErrorToString(outcome.reason))

\* the tool a handler is registered under runs that handler on the settled request
HandlerResult(tool, args, settled) ==
  CASE tool = "get_user_posts" ->
         get_user_posts_handler(args, getUserPosts_settled(args, settled))
    [] tool = "get_user_comments" ->
         get_user_comments_handler(args, getUserComments_settled(args, settled))
    [] tool = "get_post_comments" ->
         get_post_comments_handler(args, getPostComments_settled(args, settled))
    [] tool = "hide_comment" ->
         hide_comment_handler(args, hideComment_settled(args, settled))
    [] tool = "reply_to_comment" ->
         reply_to_comment_handler(args, replyToComment_settled(args, settled))
    [] tool = "post_comment" ->
         post_comment_handler(args, postComment_settled(args, settled))
    [] tool = "get_hot_posts" ->
         get_hot_posts_handler(args, getHotPosts_settled(args, settled))
    [] tool = "get_new_posts" ->
         get_new_posts_handler(args, getNewPosts_settled(args, settled))
    [] tool = "get_rising_posts" ->
         get_rising_posts_handler(args, getRisingPosts_settled(args, settled))

(***************************************************************************)
(* The inputs callers send and the answers the backend gives.              *)
(***************************************************************************)
ApiKeys == {"key-A", "key-B"}
BackendUrl == "https://reddable.vercel.app"

Usernames == {"alice"}
Subreddits == {"programming"}
PostIds == {"p1"}
CommentIds == {"abc123"}
Texts == {"hello"}
\* 0, 1, 2.5, 100 and 101
LimitInputs == {Whole(0), Whole(1), Num(5, 2), Whole(100), Whole(101)}

\* a key the caller leaves out, or supplies with one of the values
Supplied(key, values) == {NoFields} \cup {[k \in {key} |-> v] : v \in values}
Merge(f, g) == [k \in DOMAIN f \cup DOMAIN g |-> IF k \in DOMAIN f THEN f[k] ELSE g[k]]
Inputs2(key1, values1, key2, values2) ==
  {Merge(f, g) : f \in Supplied(key1, values1), g \in Supplied(key2, values2)}

Listing(n) == [k \in 1..n |-> JObj(<<<<"id", JStr("t3_" \o ToString(k))>>>>)]
Listings == {JArr(Listing(n)) : n \in 0..MaxListLen}

Bodies(tool) ==
  CASE tool \in {"get_user_posts", "get_user_comments", "get_post_comments"} ->
         Listings \cup {JNull}
    [] tool = "hide_comment" -> {JObj(<<>>), JNull}
    [] tool = "reply_to_comment" ->
         {JObj(<<<<"replyId", JStr("r9")>>>>), JObj(<<<<"replyId", JStr("")>>>>),
          JObj(<<>>), JNull}
    [] tool = "post_comment" ->
         {JObj(<<<<"commentId", JStr("c7")>>>>), JObj(<<<<"commentId", JStr("")>>>>),
          JObj(<<>>), JNull}
    [] OTHER ->
         {JObj(<<<<"posts", l>>>>) : l \in Listings} \cup {JObj(<<>>), JNull}

Answers(tool) ==
  {[kind |-> "response", status |-> 200, data |-> d] : d \in Bodies(tool)}
  \cup {[kind |-> "response", status |-> 500, data |-> JNull],
        [kind |-> "network_error", message |-> "connect ECONNREFUSED"]}

(***************************************************************************)
(* State: the configuration createServer was given, the client it built,   *)
(* and the tool invocations the hosting framework is serving.              *)
(***************************************************************************)
VARIABLES config, redditClient, calls

vars == <<config, redditClient, calls>>

Slots == 1..MaxInFlight
Idle == [pc |-> "idle"]

\* createServer({config})
Init ==
  /\ config \in [REDDABLE_API_KEY : ApiKeys]
  /\ redditClient = RedditAPIClient(config.REDDABLE_API_KEY, BackendUrl)
  /\ calls = [i \in Slots |-> Idle]

\* The MCP server receives a call of `tool`: it validates the input against the
\* tool's schema and, when valid, runs the handler up to its await, which puts
\* `request` on the wire.
Invoke(i, tool, schema, input, args, request) ==
  /\ calls[i].pc = "idle"
  /\ calls' = [calls EXCEPT ![i] =
       IF ZodValid(schema, input)
       THEN [pc |-> "awaiting", tool |-> tool, input |-> input, args |-> args,
             requests |-> <<request>>]
       ELSE [pc |-> "rejected", tool |-> tool, input |-> input, requests |-> <<>>]]
  /\ UNCHANGED <<config, redditClient>>

get_user_posts(i, input) ==
  LET args == get_user_posts_args(ZodParse(get_user_posts_inputSchema, input))
  IN Invoke(i, "get_user_posts", get_user_posts_inputSchema, input, args,
            getUserPosts(redditClient, args))

get_user_comments(i, input) ==
  LET args == get_user_comments_args(ZodParse(get_user_comments_inputSchema, input))
  IN Invoke(i, "get_user_comments", get_user_comments_inputSchema, input, args,
            getUserComments(redditClient, args))

get_post_comments(i, input) ==
  LET args == get_post_comments_args(ZodParse(get_post_comments_inputSchema, input))
  IN Invoke(i, "get_post_comments", get_post_comments_inputSchema, input, args,
            getPostComments(redditClient, args))

hide_comment(i, input) ==
  LET args == hide_comment_args(ZodParse(hide_comment_inputSchema, input))
  IN Invoke(i, "hide_comment", hide_comment_inputSchema, input, args,
            hideComment(redditClient, args))

reply_to_comment(i, input) ==
  LET args == reply_to_comment_args(ZodParse(reply_to_comment_inputSchema, input))
  IN Invoke(i, "reply_to_comment", reply_to_comment_inputSchema, input, args,
            replyToComment(redditClient, args))

post_comment(i, input) ==
  LET args == post_comment_args(ZodParse(post_comment_inputSchema, input))
  IN Invoke(i, "post_comment", post_comment_inputSchema, input, args,
            postComment(redditClient, args))

get_hot_posts(i, input) ==
  LET args == get_hot_posts_args(ZodParse(get_hot_posts_inputSchema, input))
  IN Invoke(i, "get_hot_posts", get_hot_posts_inputSchema, input, args,
            getHotPosts(redditClient, args))

get_new_posts(i, input) ==
  LET args == get_new_posts_args(ZodParse(get_new_posts_inputSchema, input))
  IN Invoke(i, "get_new_posts", get_new_posts_inputSchema, input, args,
            getNewPosts(redditClient, args))

get_rising_posts(i, input) ==
  LET args == get_rising_posts_args(ZodParse(get_rising_posts_inputSchema, input))
  IN Invoke(i, "get_rising_posts", get_rising_posts_inputSchema, input, args,
            getRisingPosts(redditClient, args))

\* Settle as it would be with a retry of a failed request: a second request goes
\* out and the invocation keeps waiting.
Settle_retry(i) ==
  /\ calls[i].pc = "awaiting"
  /\ \E answer \in Answers(calls[i].tool) :
       calls' = [calls EXCEPT ![i] =
         IF AxiosSettle(answer).status = "rejected" /\ Len(calls[i].requests) < 2
         THEN [calls[i] EXCEPT !.requests = @ \o <<calls[i].requests[1]>>]
         ELSE [pc |-> "returned", tool |-> calls[i].tool, input |-> calls[i].input,
               args |-> calls[i].args, requests |-> calls[i].requests, answer |-> answer,
               result |-> HandlerResult(calls[i].tool, calls[i].args, AxiosSettle(answer))]]
  /\ UNCHANGED <<config, redditClient>>

\* Settle as it would be if the client kept the last response in a field that all
\* invocations share: the handler of invocation i then works on the answer another
\* invocation of the same tool has just received.
Settle_shared(i) ==
  /\ calls[i].pc = "awaiting"
  /\ \E answer \in Answers(calls[i].tool) :
       LET others == {j \in DOMAIN calls \ {i} :
                        calls[j].pc = "returned" /\ calls[j].tool = calls[i].tool}
           used == IF others = {} THEN answer
                   ELSE calls[CHOOSE j \in others : TRUE].answer
       IN calls' = [calls EXCEPT ![i] =
            [pc |-> "returned", tool |-> calls[i].tool, input |-> calls[i].input,
             args |-> calls[i].args, requests |-> calls[i].requests, answer |-> answer,
             result |-> HandlerResult(calls[i].tool, calls[i].args, AxiosSettle(used))]]
  /\ UNCHANGED <<config, redditClient>>

\* The backend (or the transport) answers the pending request of invocation i:
\* the awaited promise settles, the client method returns or throws, and the
\* handler returns its ToolResult.  No path of any handler issues another request.
Settle(i) ==
  /\ calls[i].pc = "awaiting"
  /\ \E answer \in Answers(calls[i].tool) :
       calls' = [calls EXCEPT ![i] =
         [pc |-> "returned", tool |-> calls[i].tool, input |-> calls[i].input,
          args |-> calls[i].args, requests |-> calls[i].requests, answer |-> answer,
          result |-> HandlerResult(calls[i].tool, calls[i].args, AxiosSettle(answer))]]
  /\ UNCHANGED <<config, redditClient>>

\* The framework has delivered the outcome of invocation i to its caller.
Deliver(i) ==
  /\ calls[i].pc \in {"returned", "rejected"}
  /\ calls' = [calls EXCEPT ![i] = Idle]
  /\ UNCHANGED <<config, redditClient>>

Next ==
  \E i \in Slots :
    \/ \E input \in Inputs2("username", Usernames, "limit", LimitInputs) :
         get_user_posts(i, input)
    \/ \E input \in Inputs2("username", Usernames, "limit", LimitInputs) :
         get_user_comments(i, input)
    \/ \E input \in Inputs2("postId", PostIds, "subreddit", Subreddits) :
         get_post_comments(i, input)
    \/ \E input \in Supplied("commentId", CommentIds) : hide_comment(i, input)
    \/ \E input \in Inputs2("commentId", CommentIds, "text", Texts) :
         reply_to_comment(i, input)
    \/ \E input \in Inputs2("postId", PostIds, "text", Texts) : post_comment(i, input)
    \/ \E input \in Inputs2("subreddit", Subreddits, "limit", LimitInputs) :
         get_hot_posts(i, input)
    \/ \E input \in Inputs2("subreddit", Subreddits, "limit", LimitInputs) :
         get_new_posts(i, input)
    \/ \E input \in Inputs2("subreddit", Subreddits, "limit", LimitInputs) :
         get_rising_posts(i, input)
    \/ Settle(i)
    \/ Deliver(i)

Spec == Init /\ [][Next]_vars

(***************************************************************************)
(* Vocabulary of the properties.                                           *)
(***************************************************************************)
\* the schema each tool is registered with
SchemaOf(tool) ==
  CASE tool = "get_user_posts" -> get_user_posts_inputSchema
    [] tool = "get_user_comments" -> get_user_comments_inputSchema
    [] tool = "get_post_comments" -> get_post_comments_inputSchema
    [] tool = "hide_comment" -> hide_comment_inputSchema
    [] tool = "reply_to_comment" -> reply_to_comment_inputSchema
    [] tool = "post_comment" -> post_comment_inputSchema
    [] tool = "get_hot_posts" -> get_hot_posts_inputSchema
    [] tool = "get_new_posts" -> get_new_posts_inputSchema
    [] tool = "get_rising_posts" -> get_rising_posts_inputSchema

Invoked(i) == calls[i].pc # "idle"
\* the handler of invocation i has run (its request is out)
Started(i) == calls[i].pc \in {"awaiting", "returned"}
Returned(i) == calls[i].pc = "returned"
\* the outbound call of a returned invocation failed: non-2xx or no response
Failed(i) == AxiosSettle(calls[i].answer).status = "rejected"
\* the backend answered a returned invocation with a 2xx response
Answered2xx(i) == AxiosSettle(calls[i].answer).status = "fulfilled"
TextOf(i) == calls[i].result.content[1].text

LimitTools ==
  {"get_user_posts", "get_user_comments", "get_hot_posts", "get_new_posts", "get_rising_posts"}
ListTools == {"get_user_posts", "get_user_comments", "get_post_comments"}
PostsTools == {"get_hot_posts", "get_new_posts", "get_rising_posts"}
GetTools == ListTools \cup PostsTools

\* the parameters a request carries: the query of a GET, the body of a POST
Carried(request) == IF request.method = "GET" THEN request.params ELSE request.data

\* s contains sub
Contains(s, sub) ==
  \E k \in 1..(Len(s) - Len(sub) + 1) : SubSeq(s, k, k + Len(sub) - 1) = sub

(***************************************************************************)
(* C1: every invocation whose input passes the schema issues exactly one   *)
(* outbound request, while it waits and after it has returned, whether the *)
(* backend answered with success or with a failure; an invocation that     *)
(* issued no request is one the schema rejected.                           *)
(***************************************************************************)
C1_ExactlyOneRequest ==
  \A i \in Slots :
    Invoked(i) =>
      IF ZodValid(SchemaOf(calls[i].tool), calls[i].input)
      THEN Started(i) /\ Len(calls[i].requests) = 1
      ELSE calls[i].pc = "rejected" /\ Len(calls[i].requests) = 0

\* a valid invocation has returned after a failed outbound call, with one request
C1_Witness ==
  \E i \in Slots :
    /\ Returned(i)
    /\ Failed(i)
    /\ Len(calls[i].requests) = 1

(***************************************************************************)
(* C2: the request of every invocation has the method, the path and the    *)
(* parameter set of the operation table: the three list tools send a GET   *)
(* with query parameters, the other six a POST with a JSON body, each to   *)
(* its own /api/reddit/mcp/<path>; the inputs the table marks as always    *)
(* sent are present, an optional input the caller left out is omitted, and *)
(* every input the caller supplied is carried with the supplied value.     *)
(***************************************************************************)
OperationTable ==
  [get_user_posts |-> [method |-> "GET", path |-> "user-posts",
                       always |-> {"limit"}, optional |-> {"username"}],
   get_user_comments |-> [method |-> "GET", path |-> "user-comments",
                          always |-> {"limit"}, optional |-> {"username"}],
   get_post_comments |-> [method |-> "GET", path |-> "post-comments",
                          always |-> {"postId"}, optional |-> {"subreddit"}],
   hide_comment |-> [method |-> "POST", path |-> "hide-comment",
                     always |-> {"commentId"}, optional |-> {}],
   reply_to_comment |-> [method |-> "POST", path |-> "reply-comment",
                         always |-> {"commentId", "text"}, optional |-> {}],
   post_comment |-> [method |-> "POST", path |-> "post-comment",
                     always |-> {"postId", "text"}, optional |-> {}],
   get_hot_posts |-> [method |-> "POST", path |-> "hot-posts",
                      always |-> {"subreddit", "limit"}, optional |-> {}],
   get_new_posts |-> [method |-> "POST", path |-> "new-posts",
                      always |-> {"subreddit", "limit"}, optional |-> {}],
   get_rising_posts |-> [method |-> "POST", path |-> "rising-posts",
                         always |-> {"subreddit", "limit"}, optional |-> {}]]

C2_RequestMatchesTable ==
  \A i \in Slots :
    Started(i) =>
      \A n \in 1..Len(calls[i].requests) :
        LET request == calls[i].requests[n]
            row == OperationTable[calls[i].tool]
            input == calls[i].input
        IN /\ request.method = row.method
           /\ request.url = "/api/reddit/mcp/" \o row.path
           /\ IF row.method = "GET" THEN request.data = NoFields
              ELSE request.params = NoFields
           /\ DOMAIN Carried(request) = row.always \cup (row.optional \cap DOMAIN input)
           /\ \A key \in DOMAIN input : Carried(request)[key] = input[key]

\* get_post_comments was called without a subreddit and its GET carries postId only
C2_Witness ==
  \E i \in Slots :
    /\ Started(i)
    /\ calls[i].tool = "get_post_comments"
    /\ "subreddit" \notin DOMAIN calls[i].input
    /\ calls[i].requests[1].method = "GET"
    /\ DOMAIN calls[i].requests[1].params = {"postId"}

(***************************************************************************)
(* C3: for the five tools that take a limit, the request carries the limit *)
(* the caller supplied (any supplied limit the schema lets through, those  *)
(* in [1,100]), and carries 25 when the caller supplied none.              *)
(***************************************************************************)
C3_LimitCarried ==
  \A i \in Slots :
    (Started(i) /\ calls[i].tool \in LimitTools) =>
      LET request == calls[i].requests[1]
          input == calls[i].input
      IN /\ Len(calls[i].requests) >= 1
         /\ "limit" \in DOMAIN Carried(request)
         /\ IF "limit" \in DOMAIN input
            THEN /\ input.limit.num >= input.limit.den
                 /\ input.limit.num <= 100 * input.limit.den
                 /\ Carried(request).limit = input.limit
            ELSE Carried(request).limit = Whole(25)

\* get_hot_posts was called without a limit and its request carries a limit
C3_Witness ==
  \E i \in Slots :
    /\ Started(i)
    /\ calls[i].tool = "get_hot_posts"
    /\ "limit" \notin DOMAIN calls[i].input
    /\ "limit" \in DOMAIN calls[i].requests[1].data

(***************************************************************************)
(* C4: a supplied limit that is below 1, above 100 or not an integer is    *)
(* rejected by input validation, and the rejected invocation sends nothing *)
(* to the backend.                                                         *)
(***************************************************************************)
IsInteger(v) == v.num % v.den = 0
IntegerInRange(v) == IsInteger(v) /\ v.num >= v.den /\ v.num <= 100 * v.den

C4_OnlyIntegerLimits ==
  \A i \in Slots :
    (/\ Invoked(i)
     /\ calls[i].tool \in LimitTools
     /\ "limit" \in DOMAIN calls[i].input
     /\ ~IntegerInRange(calls[i].input.limit))
    => (calls[i].pc = "rejected" /\ Len(calls[i].requests) = 0)

(***************************************************************************)
(* C5: when the backend answers get_user_posts, get_user_comments or       *)
(* get_post_comments with a 2xx response carrying a list, the result's     *)
(* text is the pretty-printed JSON of exactly that list and isError is not *)
(* set; a listing of two elements is printed with two-space indentation,   *)
(* in the order received.                                                  *)
(***************************************************************************)
TwoItemsText == "[\n  {\n    \"id\": \"t3_1\"\n  },\n  {\n    \"id\": \"t3_2\"\n  }\n]"

C5_ListPassThrough ==
  \A i \in Slots :
    (/\ Returned(i)
     /\ calls[i].tool \in ListTools
     /\ Answered2xx(i)
     /\ calls[i].answer.data.type = "array")
    => /\ "isError" \notin DOMAIN calls[i].result
       /\ Len(calls[i].result.content) = 1
       /\ TextOf(i) = JSONstringify(calls[i].answer.data)
       /\ calls[i].answer.data = JArr(Listing(2)) => TextOf(i) = TwoItemsText

\* get_user_posts has returned the two-element listing the backend sent
C5_Witness ==
  \E i \in Slots :
    /\ Returned(i)
    /\ calls[i].tool = "get_user_posts"
    /\ Answered2xx(i)
    /\ calls[i].answer.data = JArr(Listing(2))
    /\ TextOf(i) = TwoItemsText

(***************************************************************************)
(* C6: when the outbound call of one of the six get_* tools fails (no      *)
(* response, or a non-2xx response), the result has isError true and its   *)
(* text is the tool's failure phrase followed by the stringified error;    *)
(* the one request is not repeated.                                        *)
(***************************************************************************)
FailurePhrase ==
  [get_user_posts |-> "Error fetching user posts",
   get_user_comments |-> "Error fetching user comments",
   get_post_comments |-> "Error fetching post comments",
   get_hot_posts |-> "Error fetching hot posts",
   get_new_posts |-> "Error fetching new posts",
   get_rising_posts |-> "Error fetching rising posts"]

C6_GetFailureSurfaced ==
  \A i \in Slots :
    (Returned(i) /\ calls[i].tool \in GetTools /\ Failed(i))
    => LET error == AxiosSettle(calls[i].answer).reason
       IN /\ "isError" \in DOMAIN calls[i].result
          /\ calls[i].result.isError = TRUE
          /\ TextOf(i) = FailurePhrase[calls[i].tool] \o ": " \o error.name \o ": "
                         \o error.message
          /\ Len(calls[i].requests) = 1

\* get_post_comments has returned after the connection was refused
C6_Witness ==
  \E i \in Slots :
    /\ Returned(i)
    /\ calls[i].tool = "get_post_comments"
    /\ calls[i].answer.kind = "network_error"
    /\ calls[i].result.isError = TRUE
    /\ Contains(TextOf(i), "Error fetching post comments")
    /\ Contains(TextOf(i), "ECONNREFUSED")

(***************************************************************************)
(* C7: hide_comment of comment c returns "Successfully hid comment c" with *)
(* isError false when the backend answers 2xx, and "Failed to hide comment *)
(* c" with isError true, without any detail of the error, when the         *)
(* outbound call fails; it returns nothing else.                           *)
(***************************************************************************)
C7_HideCommentResult ==
  \A i \in Slots :
    (Returned(i) /\ calls[i].tool = "hide_comment")
    => LET c == calls[i].input.commentId
       IN IF Answered2xx(i)
          THEN calls[i].result =
                 [content |-> <<[type |-> "text", text |-> "Successfully hid comment " \o c]>>,
                  isError |-> FALSE]
          ELSE /\ calls[i].result =
                    [content |-> <<[type |-> "text", text |-> "Failed to hide comment " \o c]>>,
                     isError |-> TRUE]
               /\ ~Contains(TextOf(i), AxiosSettle(calls[i].answer).reason.message)
               /\ ~Contains(TextOf(i), AxiosSettle(calls[i].answer).reason.name)

\* hide_comment("abc123") has returned after the backend answered 500
C7_Witness ==
  \E i \in Slots :
    /\ Returned(i)
    /\ calls[i].tool = "hide_comment"
    /\ calls[i].answer.kind = "response"
    /\ calls[i].answer.status = 500
    /\ TextOf(i) = "Failed to hide comment abc123"
    /\ calls[i].result.isError = TRUE

(***************************************************************************)
(* C8: reply_to_comment and post_comment return isError false exactly when *)
(* the backend answered 2xx with a non-empty new id, and the text then     *)
(* contains the target id and the new id; in every other case (a failed    *)
(* call, or a 2xx response whose id is missing or empty) they return the   *)
(* same fixed "Failed to ..." sentence with isError true.                  *)
(***************************************************************************)
IdTools == {"reply_to_comment", "post_comment"}
NewIdKey(tool) == IF tool = "reply_to_comment" THEN "replyId" ELSE "commentId"
TargetKey(tool) == IF tool = "reply_to_comment" THEN "commentId" ELSE "postId"
FailedSentence(tool, target) ==
  IF tool = "reply_to_comment" THEN "Failed to reply to comment " \o target
  ELSE "Failed to post comment on post " \o target

\* the backend answered 2xx with a body whose new id is a non-empty string
HasNewId(i) ==
  /\ Answered2xx(i)
  /\ calls[i].answer.data.type = "object"
  /\ Get(calls[i].answer.data, NewIdKey(calls[i].tool)).type = "string"
  /\ Get(calls[i].answer.data, NewIdKey(calls[i].tool)).value # ""

C8_IdToolResult ==
  \A i \in Slots :
    (Returned(i) /\ calls[i].tool \in IdTools)
    => LET tool == calls[i].tool
           target == calls[i].input[TargetKey(tool)]
       IN /\ "isError" \in DOMAIN calls[i].result
          /\ calls[i].result.isError = ~HasNewId(i)
          /\ HasNewId(i) =>
               /\ Contains(TextOf(i), target)
               /\ Contains(TextOf(i), Get(calls[i].answer.data, NewIdKey(tool)).value)
               /\ ~Contains(TextOf(i), "Failed")
          /\ ~HasNewId(i) => TextOf(i) = FailedSentence(tool, target)

\* post_comment got a 2xx response with an empty commentId and reported a failure
C8_Witness ==
  \E i \in Slots :
    /\ Returned(i)
    /\ calls[i].tool = "post_comment"
    /\ Answered2xx(i)
    /\ calls[i].answer.data = JObj(<<<<"commentId", JStr("")>>>>)
    /\ calls[i].result.isError = TRUE
    /\ TextOf(i) = "Failed to post comment on post p1"

(***************************************************************************)
(* C9: when the backend answers get_hot_posts, get_new_posts or            *)
(* get_rising_posts with a 2xx response whose posts list is empty or       *)
(* absent, the result's text is the empty JSON array and isError is not    *)
(* set; a non-empty posts list is returned as its pretty-printed JSON.     *)
(***************************************************************************)
C9_EmptyListingIsNoError ==
  \A i \in Slots :
    (/\ Returned(i)
     /\ calls[i].tool \in PostsTools
     /\ Answered2xx(i)
     /\ calls[i].answer.data.type = "object")
    => LET posts == Get(calls[i].answer.data, "posts")
       IN /\ "isError" \notin DOMAIN calls[i].result
          /\ IF posts.type = "undefined" \/ (posts.type = "array" /\ Len(posts.items) = 0)
             THEN TextOf(i) = "[]"
             ELSE /\ TextOf(i) = JSONstringify(posts)
                  /\ posts = JArr(Listing(2)) => TextOf(i) = TwoItemsText

\* get_new_posts has returned "[]" for a response whose posts list is empty
C9_Witness ==
  \E i \in Slots :
    /\ Returned(i)
    /\ calls[i].tool = "get_new_posts"
    /\ Answered2xx(i)
    /\ calls[i].answer.data = JObj(<<<<"posts", JArr(<<>>)>>>>)
    /\ TextOf(i) = "[]"
    /\ "isError" \notin DOMAIN calls[i].result

(***************************************************************************)
(* C10: every outbound request goes to the fixed backend and carries the   *)
(* header Authorization: Bearer <key>, <key> being the REDDABLE_API_KEY    *)
(* the server was created with; no step changes the key or the client.     *)
(***************************************************************************)
RequestAuthorized(request) ==
  /\ request.baseURL = "https://reddable.vercel.app"
  /\ "Authorization" \in DOMAIN request.headers
  /\ request.headers["Authorization"] = "Bearer " \o config.REDDABLE_API_KEY

C10_EveryRequestAuthorized ==
  /\ [](\A i \in Slots :
          Invoked(i) =>
            \A n \in 1..Len(calls[i].requests) : RequestAuthorized(calls[i].requests[n]))
  /\ [][config' = config /\ redditClient' = redditClient]_vars

\* a request is out that carries the key the server was created with
C10_Witness ==
  \E i \in Slots :
    /\ Started(i)
    /\ config.REDDABLE_API_KEY = "key-B"
    /\ calls[i].requests[1].headers["Authorization"] = "Bearer key-B"
    /\ calls[i].requests[1].baseURL = "https://reddable.vercel.app"

(***************************************************************************)
(* The gateway serving several invocations at the same time: the same      *)
(* server, client and handlers, with MaxConcurrent invocations in flight   *)
(* whose requests and answers interleave in every order.  Each tool is     *)
(* called with one valid input, hide_comment with two different comments.  *)
(***************************************************************************)
ConcSlots == 1..MaxConcurrent
ConcCommentIds == {"abc123", "xyz789"}

ConcInit ==
  /\ config = [REDDABLE_API_KEY |-> "key-A"]
  /\ redditClient = RedditAPIClient(config.REDDABLE_API_KEY, BackendUrl)
  /\ calls = [i \in ConcSlots |-> Idle]

ConcNext ==
  \E i \in ConcSlots :
    \/ get_user_posts(i, [username |-> "alice", limit |-> Whole(100)])
    \/ get_user_comments(i, [limit |-> Whole(1)])
    \/ get_post_comments(i, [postId |-> "p1"])
    \/ \E c \in ConcCommentIds : hide_comment(i, [commentId |-> c])
    \/ reply_to_comment(i, [commentId |-> "abc123", text |-> "hello"])
    \/ post_comment(i, [postId |-> "p1", text |-> "hello"])
    \/ get_hot_posts(i, [subreddit |-> "programming", limit |-> Whole(100)])
    \/ get_new_posts(i, [subreddit |-> "programming"])
    \/ get_rising_posts(i, [subreddit |-> "programming", limit |-> Whole(1)])
    \/ Settle(i)
    \/ Deliver(i)

ConcSpec == ConcInit /\ [][ConcNext]_vars

(***************************************************************************)
(* C11: invocations in flight together are independent.  A step of one     *)
(* invocation changes no other invocation, nor the client or the           *)
(* configuration.  In every state, invocations with the same tool and      *)
(* input have sent the same request, and returned invocations with the     *)
(* same tool, input and answer have the same result, whatever the others   *)
(* were doing; the result of hide_comment names its own comment and is an  *)
(* error exactly when its own request failed.                              *)
(***************************************************************************)
SameCall(i, j) ==
  /\ Started(i) /\ Started(j)
  /\ calls[i].tool = calls[j].tool
  /\ calls[i].input = calls[j].input

OwnResult(i) ==
  (Returned(i) /\ calls[i].tool = "hide_comment")
  => /\ calls[i].result.isError = Failed(i)
     /\ Contains(TextOf(i), calls[i].input.commentId)
     /\ \A c \in ConcCommentIds \ {calls[i].input.commentId} : ~Contains(TextOf(i), c)

Independent ==
  /\ \A i \in DOMAIN calls : OwnResult(i)
  /\ \A i, j \in DOMAIN calls :
       SameCall(i, j) =>
         /\ calls[i].requests = calls[j].requests
         /\ (Returned(i) /\ Returned(j) /\ calls[i].answer = calls[j].answer)
            => calls[i].result = calls[j].result

OneAtATime ==
  /\ config' = config
  /\ redditClient' = redditClient
  /\ \A i, j \in DOMAIN calls :
       (i # j /\ calls'[i] # calls[i]) => calls'[j] = calls[j]

C11_InvocationsIndependent == []Independent /\ [][OneAtATime]_vars

\* two hide_comment invocations of different comments hold their results together:
\* the one whose request failed reports the failure, the other the success
C11_Witness ==
  \E i, j \in DOMAIN calls :
    /\ i # j
    /\ Returned(i) /\ Returned(j)
    /\ calls[i].tool = "hide_comment" /\ calls[j].tool = "hide_comment"
    /\ calls[i].input.commentId = "abc123" /\ calls[j].input.commentId = "xyz789"
    /\ Failed(i) /\ ~Failed(j)
    /\ TextOf(i) = "Failed to hide comment abc123"
    /\ TextOf(j) = "Successfully hid comment xyz789"

(***************************************************************************)
(* The gateway with outbound calls that complete: a pending request is     *)
(* eventually answered or fails, and the event loop then resumes the       *)
(* handler that awaits it.                                                 *)
(***************************************************************************)
FairSpec == Spec /\ \A i \in Slots : WF_vars(Settle(i))

(***************************************************************************)
(* C12: every validated invocation whose outbound call completes returns  *)
(* a ToolResult, and every ToolResult returned holds exactly one content   *)
(* block, of type text, beside at most the isError flag: no exception of   *)
(* the outbound call leaves a handler.  When the outbound call of          *)
(* hide_comment, reply_to_comment or post_comment fails, the result is not *)
(* the handler's own "Error hiding comment" / "Error replying to comment"  *)
(* / "Error posting comment" result.                                       *)
(***************************************************************************)
SentinelTools == {"hide_comment", "reply_to_comment", "post_comment"}
HandlerErrorPhrase ==
  [hide_comment |-> "Error hiding comment",
   reply_to_comment |-> "Error replying to comment",
   post_comment |-> "Error posting comment"]

OneTextBlock(i) ==
  /\ "content" \in DOMAIN calls[i].result
  /\ DOMAIN calls[i].result \subseteq {"content", "isError"}
  /\ Len(calls[i].result.content) = 1
  /\ calls[i].result.content[1].type = "text"

NoHandlerError(i) ==
  (calls[i].tool \in SentinelTools /\ Failed(i))
  => ~Contains(TextOf(i), HandlerErrorPhrase[calls[i].tool])

C12_ReturnsOneTextBlock ==
  /\ [](\A i \in Slots : Returned(i) => (OneTextBlock(i) /\ NoHandlerError(i)))
  /\ \A i \in Slots : (calls[i].pc = "awaiting") ~> Returned(i)

\* reply_to_comment has returned one text block, the failure sentence, after a 500
C12_Witness ==
  \E i \in Slots :
    /\ Returned(i)
    /\ calls[i].tool = "reply_to_comment"
    /\ calls[i].answer.kind = "response"
    /\ calls[i].answer.status = 500
    /\ Len(calls[i].result.content) = 1
    /\ TextOf(i) = "Failed to reply to comment abc123"

====
